---- MODULE Spec2Model ----
(***************************************************************************)
(* A model of plugins/modules/zos_mount.py: the persistent-block editor    *)
(* swap_text and the mount-action logic of run_module.                     *)
(*                                                                         *)
(* Text is modelled as TLA+ strings (Len, \o and SubSeq work on them), a   *)
(* file as the sequence of its lines.  Python's 0-based indices are kept   *)
(* as 1-based positions of the sequences: Python index i is position i+1.  *)
(***************************************************************************)
EXTENDS Integers, Sequences, FiniteSets, TLC

(***************************************************************************)
(* Python string primitives                                                *)
(***************************************************************************)

Min(a, b) == IF a < b THEN a ELSE b

\* s[a:b] for 0 <= a, 0 <= b: the slice is cut to the length of s.
PySlice(s, a, b) ==
    IF a >= Min(b, Len(s)) THEN "" ELSE SubSeq(s, a + 1, Min(b, Len(s)))

\* s[i] for an index known to be in range.
CharAt(s, i) == SubSeq(s, i + 1, i + 1)

\* c.isspace() for the white space a line can hold.
IsSpace(c) == c \in {" ", "\t"}

\* s.startswith(lit, i)
StartsWithAt(s, i, lit) == PySlice(s, i, i + Len(lit)) = lit

\* sub in s
Contains(s, sub) ==
    \E i \in 0..(Len(s) - Len(sub)) : StartsWithAt(s, i, sub)

LowerCase == "abcdefghijklmnopqrstuvwxyz"

UpperCase == "ABCDEFGHIJKLMNOPQRSTUVWXYZ"

UpperChar(c) ==
    IF \E i \in 0..25 : CharAt(LowerCase, i) = c
    THEN CharAt(UpperCase, CHOOSE i \in 0..25 : CharAt(LowerCase, i) = c)
    ELSE c

\* s.upper()
RECURSIVE Upper(_)
Upper(s) ==
    IF Len(s) = 0 THEN ""
    ELSE UpperChar(CharAt(s, 0)) \o Upper(PySlice(s, 1, Len(s)))

\* s.strip()
Strip(s) ==
    LET keep == {i \in 0..(Len(s) - 1) : ~IsSpace(CharAt(s, i))}
    IN  IF keep = {} THEN ""
        ELSE PySlice(s, CHOOSE i \in keep : \A j \in keep : i <= j,
                        (CHOOSE i \in keep : \A j \in keep : i >= j) + 1)

\* "\n".join(lines)
RECURSIVE Join(_)
Join(lines) ==
    IF Len(lines) = 0 THEN ""
    ELSE IF Len(lines) = 1 THEN lines[1]
    ELSE lines[1] \o "\n" \o Join(Tail(lines))

\* The pieces of s between the positions nl of its newlines, from index
\* `from` on.
RECURSIVE CutAt(_, _, _)
CutAt(s, from, nl) ==
    IF nl = {} THEN <<PySlice(s, from, Len(s))>>
    ELSE LET i == CHOOSE k \in nl : \A j \in nl : k <= j
         IN  <<PySlice(s, from, i)>> \o CutAt(s, i + 1, nl \ {i})

\* s.split('\n'): always at least one piece, a trailing newline gives a
\* trailing empty piece.
Split(s) == CutAt(s, 0, {i \in 0..(Len(s) - 1) : CharAt(s, i) = "\n"})

\* s.splitlines(): no piece for the empty string, none after a final newline.
SplitLines(s) ==
    IF Len(s) = 0 THEN <<>>
    ELSE LET pieces == Split(s)
         IN  IF pieces[Len(pieces)] = "" THEN SubSeq(pieces, 1, Len(pieces) - 1)
             ELSE pieces

(***************************************************************************)
(* swap_text: the persistent-block editor                                  *)
(***************************************************************************)

\* The end of the run of white space that starts at index i: what \s* eats.
SkipSpace(s, i) ==
    LET stops == {j \in i..Len(s) : j = Len(s) \/ ~IsSpace(CharAt(s, j))}
    IN  CHOOSE j \in stops : \A k \in stops : j <= k

\* The identifier part of the pattern, removing.upper(), is pasted into the
\* regular expression as it is: a '.' of the identifier is the wildcard, every
\* other character of the identifiers used here (letters, digits) is itself.
RegexIdMatch(s, i, pat) ==
    /\ i + Len(pat) <= Len(s)
    /\ \A k \in 0..(Len(pat) - 1) :
          CharAt(pat, k) = "." \/ CharAt(s, i + k) = CharAt(pat, k)

\* ms.match(line) for ms = re.compile(r"^\s*MOUNT\s+FILESYSTEM\(\s*'" +
\* removing.upper() + r"'\s*\)"): anchored at the start of the line, open at
\* its end, case-sensitive.
ms_match(line, removing) ==
    LET pat == Upper(removing)
        p0 == SkipSpace(line, 0)
        p1 == p0 + Len("MOUNT")
        p2 == SkipSpace(line, p1)
        p3 == p2 + Len("FILESYSTEM(")
        p4 == SkipSpace(line, p3)
        p5 == p4 + 1
        p6 == p5 + Len(pat)
        p7 == SkipSpace(line, p6 + 1)
    IN  /\ StartsWithAt(line, p0, "MOUNT")
        /\ p2 > p1
        /\ StartsWithAt(line, p2, "FILESYSTEM(")
        /\ StartsWithAt(line, p4, "'")
        /\ RegexIdMatch(line, p5, pat)
        /\ StartsWithAt(line, p6, "'")
        /\ StartsWithAt(line, p7, ")")

\* remove_starting_at_index = None
NoIndex == 0

\* The comment check above the matched line, at position index (Python index
\* index - 1): for tmpindex in range(index - 1, 0, -1) visits the positions
\* index - 1 down to 2 and never the first line.  The walk stops at the first
\* line that is empty, or does not open a comment, or is a BEGIN marker; when
\* it stops nowhere the span starts at the matched line.
WalkBack(content_lines, index) ==
    LET stops == {t \in 2..(index - 1) :
                     \/ Len(content_lines[t]) = 0
                     \/ PySlice(content_lines[t], 0, 2) # "/*"
                     \/ PySlice(content_lines[t], 0, 6) = "/* BEG"}
    IN  IF stops = {} THEN index
        ELSE CHOOSE t \in stops : \A u \in stops : t >= u

\* Whether a line closes the span that is open (doit).
ClosesSpan(line) ==
    IF Len(line) > 0
    THEN \/ (CharAt(line, 0) # " " /\ CharAt(line, 0) # "\t"
                /\ PySlice(line, 0, 2) # "/*")
         \/ PySlice(line, 0, 6) = "/* END"
    ELSE TRUE

\* boneyard[k] = v on a dict kept as the sequence of its <<key, value>> pairs
\* in insertion order.
BoneyardPut(boneyard, k, v) ==
    IF \E i \in 1..Len(boneyard) : boneyard[i][1] = k
    THEN [i \in 1..Len(boneyard) |->
             IF boneyard[i][1] = k THEN <<k, v>> ELSE boneyard[i]]
    ELSE Append(boneyard, <<k, v>>)

\* The loop over enumerate(content_lines), from position index on; st holds
\* remove_starting_at_index, remove_ending_at_index and boneyard.
RECURSIVE ScanLines(_, _, _, _)
ScanLines(content_lines, removing, index, st) ==
    IF index > Len(content_lines) THEN st
    ELSE LET line == content_lines[index]
             next ==
                IF st.start = NoIndex
                THEN IF ms_match(line, removing)
                     THEN [st EXCEPT !.start = WalkBack(content_lines, index),
                                     !.end = index]
                     ELSE st
                ELSE IF ClosesSpan(line)
                     THEN [start |-> NoIndex, end |-> NoIndex,
                           boneyard |-> BoneyardPut(st.boneyard, st.start, index)]
                     ELSE [st EXCEPT !.end = index]
         IN  ScanLines(content_lines, removing, index + 1, next)

\* The span still open at the end of the file joins the boneyard unless it is
\* a single line.
CloseAtEof(st) ==
    IF st.start # NoIndex /\ st.end # NoIndex /\ st.start # st.end
    THEN BoneyardPut(st.boneyard, st.start, st.end)
    ELSE st.boneyard

\* del(content_lines[startidx:endidx + 1]) at positions s..e.
DelSlice(content_lines, s, e) ==
    SubSeq(content_lines, 1, Min(s - 1, Len(content_lines)))
        \o SubSeq(content_lines, Min(e, Len(content_lines)) + 1, Len(content_lines))

\* Changed: only the span recorded first is deleted.
DeleteSpans_first_only(content_lines, boneyard) ==
    IF Len(boneyard) = 0 THEN content_lines
    ELSE DelSlice(content_lines, boneyard[1][1], boneyard[1][2])

\* The deletions, last recorded span first, each on the list as the former
\* ones left it.
RECURSIVE DeleteSpans(_, _)
DeleteSpans(content_lines, boneyard) ==
    IF Len(boneyard) = 0 THEN content_lines
    ELSE LET last == boneyard[Len(boneyard)]
         IN  DeleteSpans(DelSlice(content_lines, last[1], last[2]),
                         SubSeq(boneyard, 1, Len(boneyard) - 1))

\* The spans swap_text deletes from original for removing.
Boneyard(original, removing) ==
    CloseAtEof(ScanLines(original, removing, 1,
                         [start |-> NoIndex, end |-> NoIndex, boneyard |-> <<>>]))

\* The list of lines swap_text has built when it joins them.
swap_lines(original, adding, removing) ==
    LET kept == DeleteSpans(original, Boneyard(original, removing))
    IN  IF Len(adding) > 0 THEN kept \o Split(adding) ELSE kept

swap_text(original, adding, removing) ==
    Join(swap_lines(original, adding, removing))

(***************************************************************************)
(* run_module: the comment cards, the block and the two commands           *)
(***************************************************************************)

\* Python's None where a string is expected; no option value is this text.
PyNone == "<None>"

\* "{0}".format(x)
Str(x) == IF x = PyNone THEN "None" ELSE x

Digits == "0123456789"

\* str(n) for n >= 0
RECURSIVE IntStr(_)
IntStr(n) ==
    IF n < 10 THEN CharAt(Digits, n)
    ELSE IntStr(n \div 10) \o CharAt(Digits, n % 10)

\* "{0:02d}".format(n)
Fmt02d(n) == IF n < 10 THEN "0" \o IntStr(n) ELSE IntStr(n)

\* The characters of a string, as a for loop over the string yields them.
Chars(s) == [i \in 1..Len(s) |-> CharAt(s, i - 1)]

\* What `for tabline in comments` iterates: the list persistent.comments, or,
\* with no persistent option, the characters of the string 'no comments
\* provided'; none: comments is None (persistent given without comments).
comments_of(persistent) ==
    IF persistent.given
    THEN [none |-> ~persistent.has_comments, items |-> persistent.comments]
    ELSE [none |-> FALSE, items |-> Chars("no comments provided")]

\* Changed: a buffer longer than 60 is cut after 64 characters.
stopper_of_late(extra) == Min(64, Len(extra))

\* Where a buffer longer than 60 is cut: for i in range(59, 48, -1) takes the
\* last space at an index in 49..59, or 60.
stopper_of(extra) ==
    LET spaces == {i \in 49..59 : CharAt(extra, i) = " "}
    IN  IF spaces = {} THEN 60
        ELSE CHOOSE i \in spaces : \A j \in spaces : i >= j

\* while len(extra) > 0: the cards of one buffer; acc holds the text emitted
\* so far and the card counter.
RECURSIVE FlushCards(_, _)
FlushCards(extra, acc) ==
    IF Len(extra) = 0 THEN acc
    ELSE IF Len(extra) > 60
    THEN LET stopper == stopper_of(extra)
             tmpx == PySlice(extra, 0, stopper)
         IN  FlushCards(Strip(PySlice(extra, stopper, Len(extra))),
                        [text |-> acc.text \o "/* C" \o Fmt02d(acc.ctr) \o ":"
                                      \o tmpx \o " */\n",
                         ctr |-> acc.ctr + 1])
    ELSE [text |-> acc.text \o "/* C" \o Fmt02d(acc.ctr) \o ":" \o extra
                       \o " */\n",
          ctr |-> acc.ctr + 1]

\* for tabline in comments: the buffer is empty whenever a new item is taken,
\* as the while loop inside the for loop has flushed it.
RECURSIVE CommentCards(_, _)
CommentCards(items, acc) ==
    IF Len(items) = 0 THEN acc
    ELSE CommentCards(Tail(items), FlushCards(Strip(Head(items)), acc))

\* The comment header appended to parmtext.
comment_header(persistent) ==
    LET c == comments_of(persistent)
    IN  IF c.none THEN ""
        ELSE CommentCards(c.items, [text |-> "", ctr |-> 1]).text

\* parmtext = '/* BEGIN ANSIBLE MANAGED BLOCK ' + dtstr + ' */\n'
begin_marker(dtstr) == "/* BEGIN ANSIBLE MANAGED BLOCK " \o dtstr \o " */\n"

\* parmtail = "\n" + parmtext.replace("BEGIN", "END")
parmtail(dtstr) == "\n" \o "/* END ANSIBLE MANAGED BLOCK " \o dtstr \o " */\n"

gonna_mount_of(state) ==
    ~(Contains(state, "unmounted") \/ Contains(state, "absent"))

\* Changed: states are told apart by 'mounted' in state, which unmounted and
\* remounted contain too, so that state=mounted unmounts.
gonna_unmount_substr(state) ==
    Contains(state, "mounted") \/ Contains(state, "absent")

\* Changed: remounted is left out, so that a remount unmounts nothing.
gonna_unmount_no_remount(state) ==
    Contains(state, "unmounted") \/ Contains(state, "absent")

gonna_unmount_of(state) ==
    Contains(state, "unmounted") \/ Contains(state, "remounted")
        \/ Contains(state, "absent")

\* Each option of the mount command, in the order the code appends them: the
\* text added to fullcmd (cmd) and the text added to parmtext (parm).
NoToken == [cmd |-> "", parm |-> ""]

mode_token(p) ==
    LET subcmd == IF Contains(p.mount_opts, "ro") \/ Contains(p.mount_opts, "RO")
                  THEN "READ" ELSE "RDWR"
    IN  [cmd |-> " MODE\\(" \o subcmd \o "\\)",
         parm |-> "\n      MODE(" \o subcmd \o ")"]

parm_token(p) ==
    IF p.src_params # PyNone /\ Len(p.src_params) > 1
    THEN [cmd |-> " PARM\\(\\'" \o p.src_params \o "\\'\\)",
          parm |-> "\n      PARM('" \o p.src_params \o "')"]
    ELSE NoToken

tag_token(p) ==
    IF p.tag_untagged # PyNone /\ Len(p.tag_untagged) > 0
    THEN [cmd |-> " TAG\\(" \o p.tag_untagged \o "," \o Str(p.tag_ccsid) \o "\\)",
          parm |-> "\n      TAG(" \o p.tag_untagged \o "," \o Str(p.tag_ccsid) \o ")"]
    ELSE NoToken

setuid_token(p) ==
    IF p.allow_uid THEN [cmd |-> " SETUID", parm |-> "\n      SETUID"]
    ELSE [cmd |-> " NOSETUID", parm |-> "\n      NOSETUID"]

\* Changed: the WAIT and NOWAIT options are left out of the block.
wait_token_cmd_only(p) ==
    IF Contains(p.mount_opts, "NOWAIT") \/ Contains(p.mount_opts, "nowait")
    THEN [cmd |-> " NOWAIT", parm |-> ""]
    ELSE [cmd |-> " WAIT", parm |-> ""]

wait_token(p) ==
    IF Contains(p.mount_opts, "NOWAIT") \/ Contains(p.mount_opts, "nowait")
    THEN [cmd |-> " NOWAIT", parm |-> "\n      NOWAIT"]
    ELSE [cmd |-> " WAIT", parm |-> "\n      WAIT"]

security_token(p) ==
    IF Contains(p.mount_opts, "NOSECURITY") \/ Contains(p.mount_opts, "nosecurity")
    THEN [cmd |-> " NOSECURITY", parm |-> "\n      NOSECURITY"]
    ELSE [cmd |-> " SECURITY", parm |-> "\n      SECURITY"]

sysname_token(p) ==
    IF p.sysname # PyNone /\ Len(p.sysname) > 0 /\ Len(p.sysname) < 9
    THEN [cmd |-> " SYSNAME\\(" \o p.sysname \o "\\)",
          parm |-> "\n      SYSNAME(" \o p.sysname \o ")"]
    ELSE NoToken

automove_token(p) ==
    IF p.automove # PyNone /\ Len(p.automove) > 1
    THEN LET list == IF p.automove_list # PyNone /\ Len(p.automove_list) > 1
                     THEN "(" \o p.automove_list \o ")" ELSE ""
         IN  [cmd |-> " " \o p.automove \o list,
              parm |-> "\n      " \o p.automove \o list]
    ELSE NoToken

option_tokens(p) ==
    <<mode_token(p), parm_token(p), tag_token(p), setuid_token(p),
      wait_token(p), security_token(p), sysname_token(p), automove_token(p)>>

RECURSIVE ConcatField(_, _)
ConcatField(tokens, cmd) ==
    IF Len(tokens) = 0 THEN ""
    ELSE (IF cmd THEN Head(tokens).cmd ELSE Head(tokens).parm)
             \o ConcatField(Tail(tokens), cmd)

\* fullcmd after the `if gonna_mount` block; fs_type is the upper-cased one.
fullcmd_of(p) ==
    IF gonna_mount_of(p.state)
    THEN "tsocmd MOUNT FILESYSTEM\\( \\'" \o p.src \o "\\' \\) MOUNTPOINT\\( \\'"
             \o Str(p.path) \o "\\' \\) TYPE\\( '" \o Upper(p.fs_type) \o "' \\)"
             \o ConcatField(option_tokens(p), TRUE)
    ELSE ""

\* The declarative body: the MOUNT statement of the block.
mount_body(p) ==
    "MOUNT FILESYSTEM('" \o p.src \o "')\n      MOUNTPOINT('" \o Str(p.path)
        \o "')\n      TYPE('" \o Upper(p.fs_type) \o "')"
        \o ConcatField(option_tokens(p), FALSE)

\* parmtext after the `if gonna_mount` block: the block, or '' when the state
\* does not mount.
parmtext_of(p, dtstr) ==
    IF gonna_mount_of(p.state)
    THEN begin_marker(dtstr) \o comment_header(p.persistent) \o mount_body(p)
             \o parmtail(dtstr)
    ELSE ""

\* fullumcmd after the `if gonna_unmount` block.
fullumcmd_of(p) ==
    IF gonna_unmount_of(p.state)
    THEN IF p.unmount_opts = PyNone THEN fullcmd_of(p) \o " " \o "NORMAL"
         ELSE IF Len(p.unmount_opts) < 2 THEN fullcmd_of(p) \o " " \o "NORMAL"
         ELSE "tsocmd UNMOUNT FILESYSTEM\\(\\'" \o p.src \o "\\'\\)"
    ELSE ""

(***************************************************************************)
(* run_module: the inputs of one invocation                                *)
(***************************************************************************)

States == {"absent", "mounted", "unmounted", "present", "remounted"}

\* The resource the invocations are about, and another one of the store.
Src == "A.B"

OtherSrc == "C.D"

DataSetName == "SYS1.PARMLIB(BPXPRMAA)"

NoPersistent ==
    [given |-> FALSE, data_set_name |-> PyNone, has_comments |-> FALSE,
     comments |-> <<>>, backup |-> FALSE, backup_name |-> PyNone]

Persistents ==
    {NoPersistent,
     [given |-> TRUE, data_set_name |-> "sys1.parmlib(bpxprmaa)",
      has_comments |-> FALSE, comments |-> <<>>, backup |-> FALSE,
      backup_name |-> PyNone],
     [given |-> TRUE, data_set_name |-> DataSetName, has_comments |-> TRUE,
      comments |-> <<"mounted by ansible", " for the core team ">>,
      backup |-> TRUE, backup_name |-> "sys1.parmlib.backup"],
     [given |-> TRUE, data_set_name |-> DataSetName, has_comments |-> FALSE,
      comments |-> <<>>, backup |-> TRUE, backup_name |-> PyNone]}

\* The options that only shape the command text, as two sets of values: the
\* defaults of the argument specification, and every option given.
DefaultOptions ==
    [unmount_opts |-> "NORMAL", mount_opts |-> "rw", src_params |-> "",
     tag_untagged |-> "", tag_ccsid |-> PyNone, allow_uid |-> TRUE,
     sysname |-> "", automove |-> "AUTOMOVE", automove_list |-> ""]

FullOptions ==
    [unmount_opts |-> "FORCE", mount_opts |-> "ro", src_params |-> "aggrgrow",
     tag_untagged |-> "TEXT", tag_ccsid |-> "819", allow_uid |-> FALSE,
     sysname |-> "SY1", automove |-> "NOAUTOMOVE", automove_list |-> "I,SY1,SY2"]

\* Options given with values the assembly treats apart: a one-character
\* src_params and automove_list, a sysname of nine characters, a tagging mode
\* without a character-set id.
ShortOptions ==
    [unmount_opts |-> "DRAIN", mount_opts |-> "nowait", src_params |-> "x",
     tag_untagged |-> "NOTEXT", tag_ccsid |-> PyNone, allow_uid |-> TRUE,
     sysname |-> "SYSTEM123", automove |-> "AUTOMOVE", automove_list |-> "I"]

OptionSets == {DefaultOptions, FullOptions, ShortOptions}

\* path and fs_type: both given, or one of them missing.
Targets ==
    {[path |-> "/u/core", fs_type |-> "ZFS"],
     [path |-> PyNone, fs_type |-> "ZFS"],
     [path |-> "/u/core", fs_type |-> PyNone]}

MakeParams(state, target, persistent, opts, check_mode) ==
    [src |-> Src, path |-> target.path, fs_type |-> target.fs_type,
     state |-> state, persistent |-> persistent, check_mode |-> check_mode,
     unmount_opts |-> opts.unmount_opts, mount_opts |-> opts.mount_opts,
     src_params |-> opts.src_params, tag_untagged |-> opts.tag_untagged,
     tag_ccsid |-> opts.tag_ccsid, allow_uid |-> opts.allow_uid,
     sysname |-> opts.sysname, automove |-> opts.automove,
     automove_list |-> opts.automove_list]

ParamSets ==
    {MakeParams(state, target, persistent, opts, check_mode) :
        state \in States, target \in Targets, persistent \in Persistents,
        opts \in OptionSets, check_mode \in BOOLEAN}

\* datetime.today().strftime("%Y%m%d-%H%M%S") of this invocation.
Timestamps == {"20200102-030405"}

OldTimestamp == "19991231-235959"

\* The block an earlier invocation with state=mounted wrote for a resource.
OldBlock(src, persistent) ==
    parmtext_of([MakeParams("mounted", [path |-> "/u/core", fs_type |-> "ZFS"],
                            persistent, DefaultOptions, FALSE)
                     EXCEPT !.src = src], OldTimestamp)

\* The records of the store after text was copied into it.
StoreOf(text) == SplitLines(text)

\* The store before the invocation: empty; as the module left an empty store
\* after writing the resource's block; the same after another resource's
\* block; a hand-written member with a statement for the resource.
InitialStores ==
    {<<>>,
     StoreOf(OldBlock(Src, CHOOSE q \in Persistents : q.has_comments)),
     StoreOf(OldBlock(OtherSrc, CHOOSE q \in Persistents : q.has_comments))
         \o StoreOf(OldBlock(Src, CHOOSE q \in Persistents :
                                      q.given /\ ~q.has_comments)),
     <<"/* BPXPRMAA */", "ROOT FILESYSTEM('OMVS.ROOT')", "     TYPE(ZFS) MODE(RDWR)",
       "", "MOUNT FILESYSTEM('A.B') MOUNTPOINT('/u/core')", "      TYPE(ZFS) MODE(RDWR)",
       "", "MOUNT FILESYSTEM('C.D') MOUNTPOINT('/u/cd')", "      TYPE(ZFS) MODE(READ)">>}

(***************************************************************************)
(* run_module: one invocation, block by block                              *)
(***************************************************************************)

VARIABLES
    params,             \* parsed_args and module.check_mode
    pc,                 \* the block of run_module that runs next
    mounted,            \* the system: whether df lists the resource
    store,              \* the system: the records of persistent/data_set_name
    store_exists,       \* the system: whether that data set exists
    backup_store,       \* the system: the records of the backup data set
    mkdir_done,         \* the system: whether os.mkdir(path) created the path
    changed, comment, currently_mounted, rc, stdout, stderr,
    dtstr, parmtext, fullcmd, fullumcmd,
    res_args,           \* the result dictionary
    outcome,            \* running, returned (exit_json), failed (fail_json), crashed
    msg,                \* the msg of fail_json
    executed,           \* the run_command calls so far: site, cmd, rc
    store0, mounted0,   \* the store and the mount state when the invocation began
    history             \* SpecRewrite: the rewrites applied so far

run_vars ==
    <<params, pc, mounted, store, store_exists, backup_store, mkdir_done, changed,
      comment, currently_mounted, rc, stdout, stderr, dtstr, parmtext, fullcmd,
      fullumcmd, res_args, outcome, msg, executed, store0, mounted0>>

vars == <<run_vars, history>>

\* res_args = dict()
EmptyResArgs ==
    [set |-> FALSE, changed |-> FALSE, comment |-> "", cmd |-> "", rc |-> 0,
     stdout |-> "", stderr |-> ""]

\* res_args.update(...) at the end of the argument checks.
FirstResArgs ==
    [set |-> TRUE, changed |-> FALSE, comment |-> "starting\n", cmd |-> "not built",
     rc |-> 0, stdout |-> "", stderr |-> ""]

\* if not x
Falsy(x) == x = PyNone \/ x = ""

\* Changed: only state=mounted asks for path and fs_type.
NeedsTarget_mounted_only(state) == state = "mounted"

NeedsTarget(state) ==
    ~Contains(state, "unmounted") /\ ~Contains(state, "absent")

data_set_name_of(p) == Upper(p.persistent.data_set_name)

\* backup and backup_name once the persistent option is unpacked.
backup_of(p) ==
    p.persistent.given /\ p.persistent.backup /\ ~Falsy(p.persistent.backup_name)

backup_name_of(p) == Upper(p.persistent.backup_name)

write_persistent_of(p) ==
    /\ \/ Contains(p.state, "mounted")
       \/ Contains(p.state, "present")
       \/ Contains(p.state, "absent")
    /\ p.persistent.given
    /\ ~Falsy(data_set_name_of(p))
    /\ Len(data_set_name_of(p)) > 0

\* module.fail_json(msg=..., stderr=str(res_args))
Fail(m) ==
    /\ outcome' = "failed"
    /\ msg' = m
    /\ pc' = "done"

Init ==
    /\ params \in ParamSets
    /\ pc = "check_args"
    /\ mounted \in BOOLEAN
    /\ store \in InitialStores
    /\ store_exists \in BOOLEAN
    /\ store_exists = FALSE => store = <<>>
    /\ backup_store = <<>>
    /\ mkdir_done = FALSE
    /\ changed = FALSE
    /\ comment = ""
    /\ currently_mounted = FALSE
    /\ rc = 0
    /\ stdout = ""
    /\ stderr = ""
    /\ dtstr = ""
    /\ parmtext = ""
    /\ fullcmd = ""
    /\ fullumcmd = ""
    /\ res_args = EmptyResArgs
    /\ outcome = "running"
    /\ msg = ""
    /\ executed = <<>>
    /\ store0 = store
    /\ mounted0 = mounted
    /\ history = <<>>

\* The checks of path and fs_type and the flags derived from state.
CheckArgs ==
    /\ pc = "check_args"
    /\ IF Falsy(params.path) /\ NeedsTarget(params.state)
       THEN /\ Fail("path is required for mount/remount state, and was not provided.")
            /\ UNCHANGED <<comment, res_args>>
       ELSE IF Falsy(params.fs_type) /\ NeedsTarget(params.state)
       THEN /\ Fail("fs_type is required for mount/remount state, and was not provided.")
            /\ UNCHANGED <<comment, res_args>>
       ELSE /\ comment' = "starting\n"
            /\ res_args' = FirstResArgs
            /\ pc' = "check_src"
            /\ UNCHANGED <<outcome, msg>>
    /\ UNCHANGED <<params, mounted, store, store_exists, backup_store, mkdir_done,
                   changed, currently_mounted, rc, stdout, stderr, dtstr, parmtext,
                   fullcmd, fullumcmd, executed, store0, mounted0, history>>

\* The data set to be mounted or unmounted must exist.
CheckSrc ==
    /\ pc = "check_src"
    /\ \E fs_exists \in BOOLEAN :
          IF fs_exists = FALSE
          THEN Fail("Mount source (" \o params.src \o ") doesn't exist")
          ELSE /\ pc' = "check_path"
               /\ UNCHANGED <<outcome, msg>>
    /\ UNCHANGED <<params, mounted, store, store_exists, backup_store, mkdir_done,
                   changed, comment, currently_mounted, rc, stdout, stderr, dtstr,
                   parmtext, fullcmd, fullumcmd, res_args, executed, store0,
                   mounted0, history>>

\* The mount point is created when it is missing, in check mode too.
CheckPath ==
    /\ pc = "check_path"
    /\ IF gonna_mount_of(params.state)
       THEN \E mp_exists \in BOOLEAN, mkdir_ok \in BOOLEAN :
               IF mp_exists = FALSE /\ ~mkdir_ok
               THEN /\ Fail("mkdir: " \o params.path)
                    /\ UNCHANGED <<mkdir_done, comment>>
               ELSE /\ mkdir_done' = (mp_exists = FALSE)
                    /\ comment' = comment \o "ran unmount command\n"
                    /\ pc' = "query"
                    /\ UNCHANGED <<outcome, msg>>
       ELSE /\ pc' = "query"
            /\ UNCHANGED <<mkdir_done, comment, outcome, msg>>
    /\ UNCHANGED <<params, mounted, store, store_exists, backup_store, changed,
                   currently_mounted, rc, stdout, stderr, dtstr, parmtext, fullcmd,
                   fullumcmd, res_args, executed, store0, mounted0, history>>

\* The output of df: one line for each mounted file system.
DfOutput(is_mounted, src) ==
    "Mounted on     Filesystem                Avail/Total\n"
        \o "/              (OMVS.ROOT)               1000/2000\n"
        \o (IF is_mounted
            THEN "/u/core        (" \o src \o ")               10/20\n"
            ELSE "")

\* Changed: the lines of df are never searched, currently_mounted stays False.
currently_mounted_never(df_stdout, src) == FALSE

\* for line in stdout.splitlines(): if src in line
currently_mounted_of(df_stdout, src) ==
    \E i \in 1..Len(SplitLines(df_stdout)) : Contains(SplitLines(df_stdout)[i], src)

Ran(site, cmd, code) == Append(executed, [site |-> site, cmd |-> cmd, rc |-> code])

Query ==
    /\ pc = "query"
    /\ \E code \in {0, 1} :
          /\ rc' = code
          /\ stdout' = (IF code = 0 THEN DfOutput(mounted, params.src) ELSE "")
          /\ stderr' = (IF code = 0 THEN "" ELSE "stderr of df")
          /\ executed' = Ran("df", "df", code)
          /\ IF code # 0
             THEN /\ Fail("Checking filesystem list failed with error")
                  /\ UNCHANGED currently_mounted
             ELSE /\ currently_mounted' = currently_mounted_of(stdout', params.src)
                  /\ pc' = "assemble"
                  /\ UNCHANGED <<outcome, msg>>
    /\ UNCHANGED <<params, mounted, store, store_exists, backup_store, mkdir_done,
                   changed, comment, dtstr, parmtext, fullcmd, fullumcmd, res_args,
                   store0, mounted0, history>>

\* The block and the commands are assembled.
Assemble ==
    /\ pc = "assemble"
    /\ dtstr' \in Timestamps
    /\ parmtext' = parmtext_of(params, dtstr')
    /\ fullcmd' = fullcmd_of(params)
    /\ fullumcmd' = fullumcmd_of(params)
    /\ pc' = "unmount"
    /\ UNCHANGED <<params, mounted, store, store_exists, backup_store, mkdir_done,
                   changed, comment, currently_mounted, rc, stdout, stderr,
                   res_args, outcome, msg, executed, store0, mounted0, history>>

\* What a command run with exit code `code` does to the mount state: only a
\* successful MOUNT or UNMOUNT of the resource changes it.
MountedAfter(cmd, code, src, was) ==
    IF code # 0 THEN was
    ELSE IF StartsWithAt(cmd, 0, "tsocmd MOUNT FILESYSTEM\\( \\'" \o src \o "\\'")
    THEN TRUE
    ELSE IF StartsWithAt(cmd, 0, "tsocmd UNMOUNT FILESYSTEM\\(\\'" \o src \o "\\'")
    THEN FALSE
    ELSE was

\* The exit codes of a TSO command.
TsoCodes == {0, 8}

\* if gonna_unmount: ...
Unmount ==
    /\ pc = "unmount"
    /\ pc' = "mount"
    /\ IF gonna_unmount_of(params.state)
       THEN IF currently_mounted
            THEN /\ changed' = TRUE
                 /\ IF params.check_mode = FALSE
                    THEN \E code \in TsoCodes :
                            /\ rc' = code
                            /\ stdout' = "stdout of unmount"
                            /\ stderr' = "stderr of unmount"
                            /\ executed' = Ran("unmount", fullumcmd, code)
                            /\ mounted' = MountedAfter(fullumcmd, code, params.src, mounted)
                            /\ comment' = comment \o "ran unmount command\n"
                            /\ currently_mounted' = FALSE
                    ELSE /\ comment' = comment
                                \o "(unmount) NO Action taken: ANSIBLE CHECK MODE\n"
                         /\ stdout' = "ANSIBLE CHECK MODE"
                         /\ UNCHANGED <<rc, stderr, executed, mounted, currently_mounted>>
            ELSE /\ comment' = comment
                        \o "Unmount called on data set that is not mounted.\n"
                 /\ UNCHANGED <<changed, rc, stdout, stderr, executed, mounted,
                                currently_mounted>>
       ELSE UNCHANGED <<changed, comment, rc, stdout, stderr, executed, mounted,
                        currently_mounted>>
    /\ UNCHANGED <<params, store, store_exists, backup_store, mkdir_done, dtstr,
                   parmtext, fullcmd, fullumcmd, res_args, outcome, msg, store0,
                   mounted0, history>>

\* if gonna_mount: ... and then rc = 0, stdout = stderr = None
Mount ==
    /\ pc = "mount"
    /\ pc' = "persist"
    /\ rc' = 0
    /\ stdout' = PyNone
    /\ stderr' = PyNone
    /\ IF gonna_mount_of(params.state)
       THEN IF currently_mounted = FALSE
            THEN /\ changed' = TRUE
                 /\ IF params.check_mode = FALSE
                    THEN \E code \in TsoCodes :
                            /\ executed' = Ran("mount", fullcmd, code)
                            /\ mounted' = MountedAfter(fullcmd, code, params.src, mounted)
                            /\ comment' = comment \o "ran mount command\n"
                    ELSE /\ comment' = comment
                                \o "(mount) NO Action taken: ANSIBLE CHECK MODE\n"
                         /\ UNCHANGED <<executed, mounted>>
            ELSE /\ comment' = comment
                        \o "Mount called on data set that is already mounted.\n"
                 /\ UNCHANGED <<changed, executed, mounted>>
       ELSE UNCHANGED <<changed, comment, executed, mounted>>
    /\ UNCHANGED <<params, store, store_exists, backup_store, mkdir_done,
                   currently_mounted, dtstr, parmtext, fullcmd, fullumcmd, res_args,
                   outcome, msg, store0, mounted0, history>>

\* The text of a data set copied to a file: every record ends with a newline.
RECURSIVE FileText(_)
FileText(records) ==
    IF Len(records) = 0 THEN ""
    ELSE Head(records) \o "\n" \o FileText(Tail(records))

\* newtext != content compares the string swap_text returned with the list of
\* lines read from the file: a str never equals a list.
text_differs(newtext, content) == TRUE

\* The store after a rewrite whose copies succeed: the data set is copied to a
\* file, the lines of the file go through swap_text, the text returned is
\* written to the file and the file is copied back.
rewritten_store(records, adding, removing) ==
    StoreOf(swap_text(SplitLines(FileText(records)), adding, removing))

TmpFile == "/tmp/tmpabc123"

\* The exit codes of cp.
CpCodes == {0, 1}

cp_in_cmd(p) == "cp \"//'" \o data_set_name_of(p) \o "'\" " \o TmpFile

cp_backup_cmd(p) == "cp " \o TmpFile \o " \"//'" \o backup_name_of(p) \o "'\""

cp_back_cmd(p) == "cp " \o TmpFile \o " \"//'" \o data_set_name_of(p) \o "'\""

\* if write_persistent and module.check_mode is False: ...
Persist ==
    /\ pc = "persist"
    /\ IF write_persistent_of(params) /\ params.check_mode = FALSE
       THEN IF store_exists = FALSE
            THEN /\ Fail("persistent data_set_name member ("
                            \o data_set_name_of(params) \o ") doesn't exist")
                 /\ UNCHANGED <<store, backup_store, comment, rc, stdout, stderr,
                                executed>>
            ELSE \E code_in \in CpCodes, code_backup \in CpCodes, code_back \in CpCodes :
                    IF code_in # 0
                    THEN \* the temporary file was not written: the backup
                         \* copy of it fails and open() raises
                         /\ outcome' = "crashed"
                         /\ msg' = "FileNotFoundError"
                         /\ pc' = "done"
                         /\ rc' = code_in
                         /\ stdout' = "stdout of cp"
                         /\ stderr' = "stderr of cp"
                         /\ executed' =
                               IF backup_of(params)
                               THEN Append(Ran("cp_in", cp_in_cmd(params), code_in),
                                           [site |-> "cp_backup",
                                            cmd |-> cp_backup_cmd(params), rc |-> 1])
                               ELSE Ran("cp_in", cp_in_cmd(params), code_in)
                         /\ comment' =
                               IF backup_of(params)
                               THEN comment \o "Wrote backup to "
                                        \o backup_name_of(params) \o "\n"
                               ELSE comment
                         /\ UNCHANGED <<store, backup_store>>
                    ELSE LET content == SplitLines(FileText(store))
                             newtext == swap_text(content, parmtext, params.src)
                             ran1 == Ran("cp_in", cp_in_cmd(params), code_in)
                             ran2 == IF backup_of(params)
                                     THEN Append(ran1, [site |-> "cp_backup",
                                                        cmd |-> cp_backup_cmd(params),
                                                        rc |-> code_backup])
                                     ELSE ran1
                             comment2 == IF backup_of(params)
                                         THEN comment \o "Wrote backup to "
                                                  \o backup_name_of(params) \o "\n"
                                         ELSE comment
                             rewrite == text_differs(newtext, content)
                         IN  /\ backup_store' =
                                   IF backup_of(params) /\ code_backup = 0
                                   THEN StoreOf(FileText(store)) ELSE backup_store
                             /\ store' = IF rewrite /\ code_back = 0
                                         THEN rewritten_store(store, parmtext, params.src)
                                         ELSE store
                             /\ executed' =
                                   IF rewrite
                                   THEN Append(ran2, [site |-> "cp_back",
                                                      cmd |-> cp_back_cmd(params),
                                                      rc |-> code_back])
                                   ELSE ran2
                             /\ comment' = IF rewrite
                                           THEN comment2 \o "Modified "
                                                    \o data_set_name_of(params)
                                                    \o " in place\n"
                                           ELSE comment2
                             /\ rc' = IF rewrite THEN code_back
                                      ELSE IF backup_of(params) THEN code_backup
                                      ELSE code_in
                             /\ stdout' = "stdout of cp"
                             /\ stderr' = "stderr of cp"
                             /\ pc' = "return"
                             /\ UNCHANGED <<outcome, msg>>
       ELSE /\ pc' = "return"
            /\ UNCHANGED <<store, backup_store, comment, rc, stdout, stderr, executed,
                           outcome, msg>>
    /\ UNCHANGED <<params, mounted, store_exists, mkdir_done, changed,
                   currently_mounted, dtstr, parmtext, fullcmd, fullumcmd, res_args,
                   store0, mounted0, history>>

\* res_args.update(...); return res_args; module.exit_json(**res_args)
Return ==
    /\ pc = "return"
    /\ res_args' = [set |-> TRUE, changed |-> changed, comment |-> comment,
                    cmd |-> fullcmd \o fullumcmd, rc |-> rc, stdout |-> stdout,
                    stderr |-> stderr]
    /\ outcome' = "returned"
    /\ pc' = "done"
    /\ UNCHANGED <<params, mounted, store, store_exists, backup_store, mkdir_done,
                   changed, comment, currently_mounted, rc, stdout, stderr, dtstr,
                   parmtext, fullcmd, fullumcmd, msg, executed, store0, mounted0,
                   history>>

Next ==
    \/ CheckArgs
    \/ CheckSrc
    \/ CheckPath
    \/ Query
    \/ Assemble
    \/ Unmount
    \/ Mount
    \/ Persist
    \/ Return

Spec == Init /\ [][Next]_vars

(***************************************************************************)
(* SpecRewrite: swap_text applied again and again to one store             *)
(***************************************************************************)

\* How many rewrites one behaviour applies.
MaxRewrites == 3

\* The resources of the rewrites: AXB differs from A.B only where A.B has its
\* '.'.
RewriteSources == {"A.B", "AXB", "C.D"}

\* What run_module passes as `adding` for a resource: '' (state=absent), or
\* the block of a mounting state, rendered with comments at one time or
\* without comments at another.
RewriteBlocks(src) ==
    {"",
     OldBlock(src, CHOOSE q \in Persistents : q.has_comments),
     parmtext_of([MakeParams("present", [path |-> "/u/core", fs_type |-> "ZFS"],
                             CHOOSE q \in Persistents : q.given /\ ~q.has_comments,
                             FullOptions, FALSE) EXCEPT !.src = src],
                 CHOOSE t \in Timestamps : TRUE)}

\* The stores the rewrites start from: an empty one, a hand-written one, and
\* a hand-written one whose statements follow one another without a blank line.
\* One that holds two managed blocks for the same resource, and one of two
\* one-line statements, the first with a lower-case identifier, the second
\* on the last line.
RewriteStores ==
    {<<>>,
     <<"/* BPXPRMAA */", "ROOT FILESYSTEM('OMVS.ROOT')", "     TYPE(ZFS) MODE(RDWR)">>,
     <<"/* BPXPRMAA */", "ROOT FILESYSTEM('OMVS.ROOT')", "     TYPE(ZFS) MODE(RDWR)",
       "MOUNT FILESYSTEM('A.B') MOUNTPOINT('/u/core')", "      TYPE(ZFS) MODE(RDWR)",
       "MOUNT FILESYSTEM('C.D') MOUNTPOINT('/u/cd')", "      TYPE(ZFS) MODE(READ)">>,
     <<"/* BPXPRMAA */">>
         \o StoreOf(OldBlock("A.B", CHOOSE q \in Persistents : q.has_comments))
         \o StoreOf(parmtext_of(
                [MakeParams("present", [path |-> "/u/core", fs_type |-> "ZFS"],
                            CHOOSE q \in Persistents : q.given /\ ~q.has_comments,
                            FullOptions, FALSE) EXCEPT !.src = "A.B"],
                CHOOSE t \in Timestamps : TRUE)),
     <<"MOUNT FILESYSTEM('c.d') MOUNTPOINT('/u/cd') TYPE(ZFS)",
       "MOUNT FILESYSTEM('A.B') MOUNTPOINT('/u/core') TYPE(ZFS)">>}

InitRewrite ==
    /\ params = MakeParams("mounted", [path |-> "/u/core", fs_type |-> "ZFS"],
                           NoPersistent, DefaultOptions, FALSE)
    /\ pc = "rewrite"
    /\ mounted = FALSE
    /\ store \in RewriteStores
    /\ store_exists = TRUE
    /\ backup_store = <<>>
    /\ mkdir_done = FALSE
    /\ changed = FALSE
    /\ comment = ""
    /\ currently_mounted = FALSE
    /\ rc = 0
    /\ stdout = ""
    /\ stderr = ""
    /\ dtstr = ""
    /\ parmtext = ""
    /\ fullcmd = ""
    /\ fullumcmd = ""
    /\ res_args = EmptyResArgs
    /\ outcome = "running"
    /\ msg = ""
    /\ executed = <<>>
    /\ store0 = store
    /\ mounted0 = FALSE
    /\ history = <<>>

\* One rewrite of the store, as Persist does it when every copy succeeds.
Rewrite ==
    /\ pc = "rewrite"
    /\ Len(history) < MaxRewrites
    /\ \E removing \in RewriteSources :
          \E adding \in RewriteBlocks(removing) :
             /\ store' = rewritten_store(store, adding, removing)
             /\ history' = Append(history, [adding |-> adding, removing |-> removing,
                                            before |-> store])
    /\ UNCHANGED <<params, pc, mounted, store_exists, backup_store, mkdir_done,
                   changed, comment, currently_mounted, rc, stdout, stderr, dtstr,
                   parmtext, fullcmd, fullumcmd, res_args, outcome, msg, executed,
                   store0, mounted0>>

NextRewrite == Rewrite

SpecRewrite == InitRewrite /\ [][NextRewrite]_vars

(***************************************************************************)
(* What the properties speak of                                            *)
(***************************************************************************)

\* How many commands the invocation has run at a call site.
CountSite(site) ==
    Cardinality({i \in 1..Len(executed) : executed[i].site = site})

IsMountOrUnmount(e) == e.site \in {"unmount", "mount"}

\* The call sites of the mount and unmount commands run so far, in order.
CommandSites ==
    LET ran == SelectSeq(executed, IsMountOrUnmount)
    IN  [i \in 1..Len(ran) |-> ran[i].site]

\* The text of a MOUNT and of an UNMOUNT command for the resource.
IsMountCommand(cmd, src) ==
    StartsWithAt(cmd, 0, "tsocmd MOUNT FILESYSTEM\\( \\'" \o src \o "\\' \\)")

IsUnmountCommand(cmd, src) ==
    StartsWithAt(cmd, 0, "tsocmd UNMOUNT FILESYSTEM\\(\\'" \o src \o "\\'\\)")

\* The mount and unmount steps of the invocation are behind it.
PastMount == pc \in {"persist", "return"} \/ outcome = "returned"

\* The store was loaded and written back by copies that succeeded.
CopiesSucceeded ==
    /\ CountSite("cp_in") = 1
    /\ CountSite("cp_back") = 1
    /\ \A i \in 1..Len(executed) :
          executed[i].site \in {"cp_in", "cp_back"} => executed[i].rc = 0

\* The places where the lines of block stand together in lines.
Places(block, lines) ==
    {i \in 1..(Len(lines) - Len(block) + 1) :
        SubSeq(lines, i, i + Len(block) - 1) = block}

Occurs(block, lines) == Len(block) > 0 /\ Places(block, lines) # {}

\* lines without the lines of block at place i.
Without(lines, block, i) ==
    SubSeq(lines, 1, i - 1) \o SubSeq(lines, i + Len(block), Len(lines))

EndsWith(lines, block) ==
    /\ Len(block) <= Len(lines)
    /\ SubSeq(lines, Len(lines) - Len(block) + 1, Len(lines)) = block

\* A line of a block's header: the BEGIN marker or a comment card.
IsHeaderLine(line) ==
    \/ StartsWithAt(line, 0, "/* BEGIN ANSIBLE MANAGED BLOCK ")
    \/ /\ StartsWithAt(line, 0, "/* C")
       /\ Contains(Digits, PySlice(line, 4, 5))
       /\ Len(line) > 4

CountHeaderLines(lines) ==
    Cardinality({i \in 1..Len(lines) : IsHeaderLine(lines[i])})

\* The store after the n-th rewrite of SpecRewrite.
AfterRewrite(n) == IF n = Len(history) THEN store ELSE history[n + 1].before

\* The managed blocks a resource can have in the stores of SpecRewrite.
ManagedBlocks(src) == {StoreOf(b) : b \in RewriteBlocks(src) \ {""}}

(***************************************************************************)
(* Properties                                                              *)
(***************************************************************************)

\* C1: with state=unmounted the persistent store is never altered: no block
\* is removed from it, none is appended and it is not copied back, mounted or
\* not, persist target given or not.
C1_UnmountedKeepsStore ==
    params.state = "unmounted" => (store = store0 /\ CountSite("cp_back") = 0)

\* C2: with state=remounted the persistent store is never altered (no block
\* removed, none appended, no copy back), also when a persist target is given.
C2_RemountedKeepsStore ==
    params.state = "remounted" => (CountSite("cp_back") = 0 /\ store = store0)

\* C3: outside check mode and for the four states other than remounted,
\* mounted and present run the mount command once iff the resource was not
\* mounted, and never the unmount command; unmounted and absent run the
\* unmount command once iff the resource was mounted, and never the mount
\* command; every command run there is the MOUNT or UNMOUNT of the resource.
C3_PlannerCommands ==
    (params.state # "remounted" /\ params.check_mode = FALSE) =>
        /\ params.state \in {"mounted", "present"} =>
              /\ CountSite("unmount") = 0
              /\ CountSite("mount") <= 1
              /\ PastMount => CountSite("mount") = (IF mounted0 THEN 0 ELSE 1)
        /\ params.state \in {"unmounted", "absent"} =>
              /\ CountSite("mount") = 0
              /\ CountSite("unmount") <= 1
              /\ PastMount => CountSite("unmount") = (IF mounted0 THEN 1 ELSE 0)
        /\ \A i \in 1..Len(executed) :
              /\ executed[i].site = "mount" =>
                    IsMountCommand(executed[i].cmd, params.src)
              /\ executed[i].site = "unmount" =>
                    IsUnmountCommand(executed[i].cmd, params.src)

C3_Witness ==
    /\ outcome = "returned"
    /\ params.state = "absent"
    /\ params.check_mode = FALSE
    /\ mounted0
    /\ CommandSites = <<"unmount">>

C5_AlwaysUnmountThenMount ==
    (params.state = "remounted" /\ params.check_mode = FALSE /\ PastMount) =>
        CommandSites = <<"unmount", "mount">>

\* C5 amended: with state=remounted and outside check mode the mount command
\* is always run; the unmount command is run, before it, only when the
\* resource was mounted, and when it was not no unmount command is run.
C5_UnmountOnlyIfMounted ==
    (params.state = "remounted" /\ params.check_mode = FALSE /\ PastMount) =>
        /\ CommandSites = (IF mounted0 THEN <<"unmount", "mount">> ELSE <<"mount">>)
        /\ \A i \in 1..Len(executed) :
              executed[i].site = "mount" =>
                 IsMountCommand(executed[i].cmd, params.src)

C5_Witness ==
    /\ outcome = "returned"
    /\ params.state = "remounted"
    /\ params.check_mode = FALSE
    /\ ~mounted0
    /\ CommandSites = <<"mount">>

\* The unmount mode the command is to carry.
unmount_mode(p) ==
    IF p.unmount_opts = PyNone \/ Len(p.unmount_opts) < 2 THEN "NORMAL"
    ELSE p.unmount_opts

\* C6: the unmount command built for unmounted, absent and remounted names
\* the resource and carries the unmount mode (unmount_opts, or NORMAL), and
\* holds no mount path, type, mode, tag or automove token.
C6_UnmountCommandText ==
    (dtstr # "" /\ gonna_unmount_of(params.state)) =>
        /\ Contains(fullumcmd, "UNMOUNT FILESYSTEM")
        /\ Contains(fullumcmd, params.src)
        /\ Contains(fullumcmd, unmount_mode(params))
        /\ ~Contains(fullumcmd, "MOUNTPOINT")
        /\ ~Contains(fullumcmd, "TYPE")
        /\ ~Contains(fullumcmd, "MODE")
        /\ ~Contains(fullumcmd, "TAG")
        /\ ~Contains(fullumcmd, "AUTOMOVE")

\* C7: with a persist target and outside check mode the store effect depends
\* on the state alone: after mounted and present the store ends with the block
\* just rendered; after absent the block of the resource is gone from the
\* store and nothing has been appended.
C7_StoreEffect ==
    (outcome = "returned" /\ params.persistent.given /\ params.check_mode = FALSE
        /\ CopiesSucceeded) =>
        /\ params.state \in {"mounted", "present"} =>
              EndsWith(store, StoreOf(parmtext))
        /\ params.state = "absent" =>
              \A q \in Persistents :
                 LET block == StoreOf(OldBlock(params.src, q))
                 IN  (q.given /\ Occurs(block, store0)) =>
                        \E i \in Places(block, store0) :
                           store = Without(store0, block, i)

\* C8: rewrite(rewrite(lines, block, R1), block2, R1) holds one block for R1,
\* block2, and nothing of the first block: from a store that says nothing of
\* R1 the result is that store followed by block2.
C8_RewriteTwice ==
    \A n \in 2..Len(history) :
       LET first == history[n - 1]
           second == history[n]
       IN  (/\ first.removing = second.removing
            /\ first.adding # ""
            /\ second.adding # ""
            /\ \A i \in 1..Len(first.before) :
                  ~Contains(first.before[i], "FILESYSTEM("))
           => AfterRewrite(n) = first.before \o StoreOf(second.adding)

\* C9: in a store with a managed block for R1 and one for R2, in either
\* order, removing the block of R1 leaves the lines of the block of R2 in the
\* store, unchanged and together.
C9_OtherBlockUntouched ==
    \A n \in 1..Len(history) :
       \A r2 \in RewriteSources \ {history[n].removing} :
          \A b1 \in ManagedBlocks(history[n].removing), b2 \in ManagedBlocks(r2) :
             (/\ history[n].adding = ""
              /\ Occurs(b1, history[n].before)
              /\ Occurs(b2, history[n].before))
             => Occurs(b2, AfterRewrite(n))

\* C10: removing the block of a resource removes its header with it, the
\* BEGIN marker and the comment cards above the MOUNT line, wherever the block
\* stands in the store, the first line included.
C10_HeaderRemoved ==
    \A n \in 1..Len(history) :
       \A b \in ManagedBlocks(history[n].removing) :
          (history[n].adding = "" /\ Occurs(b, history[n].before))
          => CountHeaderLines(AfterRewrite(n))
                <= CountHeaderLines(history[n].before) - CountHeaderLines(b)

\* a is a subsequence of b: the lines of a stand in b, in the order of a.
RECURSIVE IsSubseq(_, _)
IsSubseq(a, b) ==
    IF Len(a) = 0 THEN TRUE
    ELSE IF Len(b) = 0 THEN FALSE
    ELSE IF Head(a) = Head(b) THEN IsSubseq(Tail(a), Tail(b))
    ELSE IsSubseq(a, Tail(b))

IsCommentLine(line) == PySlice(line, 0, 2) = "/*"

IsIndented(line) == Len(line) > 0 /\ IsSpace(CharAt(line, 0))

\* The first line of the MOUNT statement of a resource.
IsMountLineOf(line, src) ==
    StartsWithAt(line, 0, "MOUNT FILESYSTEM('" \o src \o "'")

\* The last line of the statement that starts at position i: the indented
\* lines that follow it belong to it.
StatementEnd(lines, i) ==
    LET ends == {k \in i..Len(lines) :
                    /\ \A j \in (i + 1)..k : IsIndented(lines[j])
                    /\ (k = Len(lines) \/ ~IsIndented(lines[k + 1]))}
    IN  CHOOSE k \in ends : TRUE

\* The lines of other statements next to the statement at position i: the
\* line above it when it is no comment and not empty, and the line after it
\* when it is not empty, not indented and no comment.
Neighbours(lines, i) ==
    LET k == StatementEnd(lines, i)
    IN  (IF i > 1 /\ Len(lines[i - 1]) > 0 /\ ~IsCommentLine(lines[i - 1])
         THEN <<lines[i - 1]>> ELSE <<>>)
        \o (IF k < Len(lines) /\ Len(lines[k + 1]) > 0
                 /\ ~IsCommentLine(lines[k + 1])
            THEN <<lines[k + 1]>> ELSE <<>>)

\* C11: a rewrite deletes no line of another statement: the line above the
\* MOUNT line of the resource that is no comment, and the unindented line
\* after its statement that is no comment, stand in the result, in their
\* order.
C11_NeighboursKept ==
    \A n \in 1..Len(history) :
       \A i \in 1..Len(history[n].before) :
          IsMountLineOf(history[n].before[i], history[n].removing)
          => IsSubseq(Neighbours(history[n].before, i), AfterRewrite(n))

\* The commands other than the query of the mounted file systems.
IsActingCommand(e) == e.site # "df"

ActingCommands == SelectSeq(executed, IsActingCommand)

\* C12: when the mount command, the unmount command or a copy of the store
\* ends with a nonzero exit status the invocation does not end in a normal
\* result.
C12_NonzeroStatusFails ==
    outcome = "returned" =>
        \A i \in 1..Len(ActingCommands) : ActingCommands[i].rc = 0

\* C13: the report of a fatal exit (the res_args handed to fail_json) carries
\* the narrative accumulated up to the failure and the exit code of the last
\* command run.
C13_FailureCarriesNarrative ==
    outcome = "failed" =>
        /\ res_args.comment = comment
        /\ executed # <<>> => res_args.rc = executed[Len(executed)].rc

\* The messages of the two checks of path and fs_type.
RequiredMessages ==
    {"path is required for mount/remount state, and was not provided.",
     "fs_type is required for mount/remount state, and was not provided."}

\* C14: with state mounted, present or remounted a missing path or fs_type
\* ends the invocation in a failure before any command is run and before the
\* mount point is created; with unmounted and absent no failure is about
\* path or fs_type.
C14_TargetRequired ==
    /\ (/\ params.state \in {"mounted", "present", "remounted"}
        /\ (Falsy(params.path) \/ Falsy(params.fs_type)))
       => /\ executed = <<>>
          /\ mkdir_done = FALSE
          /\ pc \in {"check_args", "done"}
          /\ outcome \in {"running", "failed"}
          /\ outcome = "failed" => msg \in RequiredMessages
    /\ params.state \in {"unmounted", "absent"} =>
          /\ msg \notin RequiredMessages
          /\ ~StartsWithAt(msg, 0, "mkdir")

C14_Witness ==
    /\ params.state = "remounted"
    /\ Falsy(params.fs_type)
    /\ outcome = "failed"
    /\ msg = "fs_type is required for mount/remount state, and was not provided."
    /\ executed = <<>>

\* C15: with state=present the result reports changed=true whenever the
\* invocation rewrote the persistent store.
C15_PresentChangedOnRewrite ==
    (outcome = "returned" /\ params.state = "present" /\ store # store0) =>
        res_args.changed

\* C16: the rc, stdout and stderr of a normal result are those of the last
\* mount, unmount or copy command of the invocation.
C16_LastCommandStatus ==
    (outcome = "returned" /\ Len(ActingCommands) > 0) =>
        /\ res_args.rc = ActingCommands[Len(ActingCommands)].rc
        /\ res_args.stdout # PyNone
        /\ res_args.stderr # PyNone

\* The pieces of s between the occurrences of the character c.
SplitChar(s, c) == CutAt(s, 0, {i \in 0..(Len(s) - 1) : CharAt(s, i) = c})

RECURSIVE Concat(_)
Concat(pieces) ==
    IF Len(pieces) = 0 THEN "" ELSE Head(pieces) \o Concat(Tail(pieces))

\* The text of a command as the program run by it receives it: without the
\* backslashes that escape it.
Unescape(s) == Concat(SplitChar(s, "\\"))

\* The tokens of a sequence from the MODE(...) token on, up to the first
\* empty token or comment.
RECURSIVE UpToEnd(_)
UpToEnd(tokens) ==
    IF Len(tokens) = 0 \/ Head(tokens) = "" \/ IsCommentLine(Head(tokens)) THEN <<>>
    ELSE <<Head(tokens)>> \o UpToEnd(Tail(tokens))

FromMode(tokens) ==
    LET at == {i \in 1..Len(tokens) : StartsWithAt(tokens[i], 0, "MODE(")}
    IN  IF at = {} THEN <<>>
        ELSE UpToEnd(SubSeq(tokens, CHOOSE i \in at : \A j \in at : i <= j,
                            Len(tokens)))

\* The options of the interactive command, and those of the block.
CmdOptions(cmd) == FromMode(SplitChar(Unescape(cmd), " "))

BodyOptions(text) ==
    LET lines == Split(text)
    IN  FromMode([i \in 1..Len(lines) |-> Strip(lines[i])])

\* The keyword of an option and its place in the fixed order.
KeywordOf(token) == SplitChar(token, "(")[1]

KeywordRank(token) ==
    CASE KeywordOf(token) = "MODE" -> 1
      [] KeywordOf(token) = "PARM" -> 2
      [] KeywordOf(token) = "TAG" -> 3
      [] KeywordOf(token) \in {"SETUID", "NOSETUID"} -> 4
      [] KeywordOf(token) \in {"WAIT", "NOWAIT"} -> 5
      [] KeywordOf(token) \in {"SECURITY", "NOSECURITY"} -> 6
      [] KeywordOf(token) = "SYSNAME" -> 7
      [] KeywordOf(token) \in {"AUTOMOVE", "NOAUTOMOVE", "UNMOUNT"} -> 8
      [] OTHER -> 0

\* The commands and the block of the invocation are assembled.
Assembled == dtstr # ""

\* C17: when a mount command is built, the command and the body of the block
\* hold the same option keywords with the same values in the same order:
\* mode, PARM, TAG, SETUID, WAIT, SECURITY, SYSNAME, automove.
C17_CommandMatchesBody ==
    (Assembled /\ gonna_mount_of(params.state)) =>
        LET opts == CmdOptions(fullcmd)
        IN  /\ opts = BodyOptions(parmtext)
            /\ Len(opts) >= 5
            /\ \A i \in 1..Len(opts) : KeywordRank(opts[i]) > 0
            /\ \A i \in 1..(Len(opts) - 1) :
                  KeywordRank(opts[i]) < KeywordRank(opts[i + 1])

C17_Witness ==
    /\ Assembled
    /\ params.state = "mounted"
    /\ CmdOptions(fullcmd) =
          <<"MODE(READ)", "PARM('aggrgrow')", "TAG(TEXT,819)", "NOSETUID", "WAIT",
            "SECURITY", "SYSNAME(SY1)", "NOAUTOMOVE(I,SY1,SY2)">>

\* C18: with state=mounted and the resource not mounted, the command holds
\* PARM, TAG, SYSNAME and the automove list exactly when the field of each is
\* set, whatever the length of its value.
C18_SetFieldsAppear ==
    (Assembled /\ params.state = "mounted" /\ ~currently_mounted) =>
        /\ Contains(fullcmd, " PARM\\(\\'" \o params.src_params \o "\\'\\)")
              <=> ~Falsy(params.src_params)
        /\ Contains(fullcmd, " TAG\\(") <=> ~Falsy(params.tag_untagged)
        /\ Contains(fullcmd, " SYSNAME\\(" \o params.sysname \o "\\)")
              <=> ~Falsy(params.sysname)
        /\ Contains(fullcmd, "(" \o params.automove_list \o ")")
              <=> ~Falsy(params.automove_list)

\* C19: a TAG token stands in the mount command and in the block only when
\* tag_untagged and tag_ccsid are both set, and never without a character-set
\* id.
C19_TagNeedsCcsid ==
    (Assembled /\ gonna_mount_of(params.state)) =>
        /\ (Contains(fullcmd, "TAG\\(") \/ Contains(parmtext, "TAG("))
              => (~Falsy(params.tag_untagged) /\ ~Falsy(params.tag_ccsid))
        /\ ~Contains(fullcmd, ",None\\)")
        /\ ~Contains(parmtext, ",None)")

\* The comment cards of a block.
IsCard(line) ==
    StartsWithAt(line, 0, "/* C") /\ Len(line) > 4 /\ Contains(Digits, PySlice(line, 4, 5))

CardsOf(text) == SelectSeq(Split(text), IsCard)

\* One card for each comment of a list of short comments.
CardsFor(comments) ==
    [i \in 1..Len(comments) |->
        "/* C" \o Fmt02d(i) \o ":" \o Strip(comments[i]) \o " */"]

\* C20: the comment header of the block rendered is the cards of the comments
\* of the persist target, or the one card "no comments provided" when no
\* comments are supplied.
C20_CommentHeader ==
    (Assembled /\ gonna_mount_of(params.state)) =>
        CardsOf(parmtext) =
            IF params.persistent.given /\ params.persistent.has_comments
            THEN CardsFor(params.persistent.comments)
            ELSE CardsFor(<<"no comments provided">>)

(***************************************************************************)
(* SpecComments: the comment cards of one comment list after another       *)
(***************************************************************************)

\* How many comments a list holds at most.
MaxComments == 3

RECURSIVE Repeat(_, _)
Repeat(s, n) == IF n = 0 THEN "" ELSE s \o Repeat(s, n - 1)

\* The comments the lists are made of: two short ones, a blank one, and two
\* of 200 characters, one without a space and one of words.
CommentPieces ==
    {"mounted by ansible", " for the core team ", " ",
     Repeat("abcdefghij", 20), Repeat("word56789 ", 20)}

InitComments ==
    /\ params = MakeParams("mounted", [path |-> "/u/core", fs_type |-> "ZFS"],
                           [given |-> TRUE, data_set_name |-> DataSetName,
                            has_comments |-> TRUE, comments |-> <<>>,
                            backup |-> FALSE, backup_name |-> PyNone],
                           DefaultOptions, FALSE)
    /\ pc = "format"
    /\ mounted = FALSE
    /\ store = <<>>
    /\ store_exists = TRUE
    /\ backup_store = <<>>
    /\ mkdir_done = FALSE
    /\ changed = FALSE
    /\ comment = ""
    /\ currently_mounted = FALSE
    /\ rc = 0
    /\ stdout = ""
    /\ stderr = ""
    /\ dtstr = ""
    /\ parmtext = ""
    /\ fullcmd = ""
    /\ fullumcmd = ""
    /\ res_args = EmptyResArgs
    /\ outcome = "running"
    /\ msg = ""
    /\ executed = <<>>
    /\ store0 = <<>>
    /\ mounted0 = FALSE
    /\ history = <<>>

\* One more comment in persistent.comments; parmtext holds the cards the
\* loop over the comments renders for the list.
AddComment ==
    /\ pc = "format"
    /\ Len(params.persistent.comments) < MaxComments
    /\ \E piece \in CommentPieces :
          /\ params' = [params EXCEPT !.persistent.comments = Append(@, piece)]
          /\ parmtext' = comment_header(params'.persistent)
    /\ UNCHANGED <<pc, mounted, store, store_exists, backup_store, mkdir_done,
                   changed, comment, currently_mounted, rc, stdout, stderr, dtstr,
                   fullcmd, fullumcmd, res_args, outcome, msg, executed, store0,
                   mounted0, history>>

NextComments == AddComment

SpecComments == InitComments /\ [][NextComments]_vars

\* The longest card of a text, 0 when it has none.
LongestCard(text) ==
    LET cards == CardsOf(text)
        lens == {Len(cards[i]) : i \in 1..Len(cards)}
    IN  IF lens = {} THEN 0 ELSE CHOOSE n \in lens : \A m \in lens : n >= m

RECURSIVE JoinSpaces(_, _)
JoinSpaces(comments, buffer) ==
    IF Len(comments) = 0 THEN buffer
    ELSE JoinSpaces(Tail(comments),
                    (IF Len(buffer) > 0 THEN buffer \o " " ELSE "")
                        \o Strip(Head(comments)))

\* C25: the comments are joined with single spaces into one buffer that is
\* then cut into cards, so that the cards are those of the joined text given
\* as one comment; the cards are counted from 1, one by one.
C25_CardsOfJoinedText ==
    pc = "format" =>
        /\ CardsOf(parmtext) =
              CardsOf(FlushCards(Strip(JoinSpaces(params.persistent.comments, "")),
                                 [text |-> "", ctr |-> 1]).text)
        /\ \A i \in 1..Len(CardsOf(parmtext)) :
              StartsWithAt(CardsOf(parmtext)[i], 0, "/* C" \o Fmt02d(i) \o ":")

\* The identifier a line holds between its first two quotes.
QuotedId(line) ==
    IF Len(SplitChar(line, "'")) >= 3 THEN SplitChar(line, "'")[2] ELSE PyNone

\* The line is the MOUNT FILESYSTEM('<id>') line of the resource, the
\* identifier compared without regard to case.
NamesResource(line, id) ==
    /\ StartsWithAt(line, 0, "MOUNT FILESYSTEM('")
    /\ Upper(QuotedId(line)) = Upper(id)

\* C22: the locator matches a line iff it is a MOUNT FILESYSTEM('<id>') line
\* whose quoted identifier is the resource id, compared case-insensitively: a
\* lower-case identifier is found, another identifier is never matched.
C22_LocatorExact ==
    \A n \in 1..Len(history) :
       \A i \in 1..Len(history[n].before) :
          ms_match(history[n].before[i], history[n].removing)
             <=> NamesResource(history[n].before[i], history[n].removing)

\* How many MOUNT lines of a resource a store holds.
CountMountLines(lines, src) ==
    Cardinality({i \in 1..Len(lines) : IsMountLineOf(lines[i], src)})

\* The rewrites of a store that holds two managed blocks of the resource
\* the rewrite is for, one after the other.
TwoBlocksAt(n) ==
    \E b1 \in ManagedBlocks(history[n].removing),
       b2 \in ManagedBlocks(history[n].removing) :
          \E i \in Places(b1, history[n].before) :
             (i + Len(b1)) \in Places(b2, history[n].before)

\* C23 as stated: one rewrite deletes at most one span: of two blocks for the
\* same resource only the first is removed, the later one remains.
C23_OnlyFirstBlockRemoved ==
    \A n \in 1..Len(history) :
       (history[n].adding = "" /\ TwoBlocksAt(n))
       => CountMountLines(AfterRewrite(n), history[n].removing) = 1

\* C23 amended: one rewrite deletes every span it locates: of two managed
\* blocks for the same resource both MOUNT statements are removed, and the
\* only MOUNT line of the resource left is that of the block appended.  The
\* rewrite looked at is the last one: the earlier ones were the last one in
\* the states before.
C23_EveryBlockRemoved ==
    \A n \in {Len(history)} \ {0} :
       (/\ CountMountLines(history[n].before, history[n].removing) >= 2
        /\ TwoBlocksAt(n))
       => /\ CountMountLines(AfterRewrite(n), history[n].removing)
                = CountMountLines(StoreOf(history[n].adding), history[n].removing)
          /\ Len(Boneyard(history[n].before, history[n].removing)) >= 2

C23_Witness ==
    /\ Len(history) >= 1
    /\ history[1].adding = ""
    /\ history[1].removing = "A.B"
    /\ TwoBlocksAt(1)
    /\ AfterRewrite(1) = <<"/* BPXPRMAA */">>

\* C24: when the end of the store is reached inside the matched statement the
\* span is closed at the last line and deleted, also when the MOUNT line is
\* the last line of the store and nothing above it joined the span.
C24_SpanClosedAtEof ==
    \A n \in 1..Len(history) :
       (/\ history[n].adding = ""
        /\ \E m \in 1..Len(history[n].before) :
              /\ IsMountLineOf(history[n].before[m], history[n].removing)
              /\ StatementEnd(history[n].before, m) = Len(history[n].before))
       => CountMountLines(AfterRewrite(n), history[n].removing) = 0

\* The records the store would hold after the rewrite of this invocation.
RewrittenRecords ==
    StoreOf(swap_text(SplitLines(FileText(store0)), parmtext, params.src))

\* C26: the store is copied back only when the rewritten text differs from
\* the content loaded; when the rewrite yields the same text the store is
\* not written.
C26_CopyBackOnlyIfDifferent ==
    CountSite("cp_back") > 0 => RewrittenRecords # store0

\* C27: when the persistent store does not exist the module fails before any
\* mount or unmount command is run, and the mount state of the resource is
\* what it was.
C27_MissingStoreFailsFirst ==
    (outcome = "failed" /\ StartsWithAt(msg, 0, "persistent data_set_name member ("))
    => /\ CountSite("mount") = 0
       /\ CountSite("unmount") = 0
       /\ mounted = mounted0

\* C28: in check mode nothing is changed, whatever the state: no mount or
\* unmount command and no copy is run, the store and the backup are not
\* written and no mount point is created.
C28_CheckModeChangesNothing ==
    params.check_mode =>
        /\ \A i \in 1..Len(executed) : executed[i].site = "df"
        /\ store = store0
        /\ backup_store = <<>>
        /\ mounted = mounted0
        /\ mkdir_done = FALSE

\* The store was overwritten: a copy back ended with exit status 0.
Overwrites == {i \in 1..Len(executed) :
                  executed[i].site = "cp_back" /\ executed[i].rc = 0}

\* C29: when backup=true is requested and the store is overwritten, a backup
\* holding the store as it was had been written before.
C29_BackupBeforeOverwrite ==
    (params.persistent.given /\ params.persistent.backup) =>
        \A i \in Overwrites :
           /\ \E j \in 1..(i - 1) :
                 executed[j].site = "cp_backup" /\ executed[j].rc = 0
           /\ backup_store = store0

\* C30: the narrative says 'ran unmount command' only if an unmount command
\* was run, and 'ran mount command' only if a mount command was.
C30_NarrativeOnlyWhatRan ==
    /\ Contains(comment, "ran unmount command") => CountSite("unmount") > 0
    /\ Contains(comment, "ran mount command") => CountSite("mount") > 0

====
